---- MODULE Spec2Model ----
(***************************************************************************)
(* Model of the evaluation engine of gpt-eval-system:                      *)
(*   - services/chapter_matcher.py    (ChapterMatcher, location matching)  *)
(*   - services/evaluation_service.py (item scoring, run_evaluation)       *)
(*   - services/ragas_evaluator.py    (evaluate_comprehensive score blend) *)
(*                                                                         *)
(* Text is modelled as a sequence of characters.  The tools accept ASCII   *)
(* only, so every CJK character of the source is written as a token:       *)
(*   "DI" = U+7B2C (ordinal prefix)   "ZHANG" = U+7AE0 (chapter)           *)
(*   "JIE" = U+8282 (section)         "c0".."c10" = numerals zero..ten     *)
(*   "c100", "c1000", "c10000" = hundred, thousand, ten-thousand           *)
(*   "DUN" = U+3001, "CCOMMA" = U+FF0C, "CSTOP" = U+3002 (punctuation)     *)
(* Scores are integers in hundredths (1.0 is 100).                         *)
(***************************************************************************)
EXTENDS Integers, Sequences, FiniteSets, TLC

\* ------------------------------------------------------------------ bounds
\* longest label of a pair handed to the matcher
MaxPairLen == 3

\* most test cases of one run
MaxCases == 2

\* largest value of EVAL_MAX_CONCURRENT and of LLM_MAX_CONCURRENT
MaxConcurrent == 2

\* the longest retrieved_chunks_json list
MaxChunks == 11

\* the most scores of one question type
MaxScores == 2
\* the segments of a chunk text given to extract_chapter_info
MaxSegments == 3
\* the rows of a table whose tasks queue for the permits
MaxQueued == 3
\* the coroutines that call call_llm on one event loop
MaxCallers == 3
\* the largest MAX_CONCURRENT_REQUESTS
MaxPermits == 2

\* ------------------------------------------------------- character classes
Digits == {"0", "1", "2", "3", "4", "5", "6", "7", "8", "9"}

\* [A-Za-z]
Letters == {"a", "b", "c", "d", "e", "f", "g", "h", "i", "j", "k", "l", "m",
            "n", "o", "p", "q", "r", "s", "t", "u", "v", "w", "x", "y", "z",
            "A", "B", "C", "D", "E", "F", "G", "H", "I", "J", "K", "L", "M",
            "N", "O", "P", "Q", "R", "S", "T", "U", "V", "W", "X", "Y", "Z"}

\* the numerals one..ten of the class [c1..c10\d]
CnOneToTen == {"c1", "c2", "c3", "c4", "c5", "c6", "c7", "c8", "c9", "c10"}

\* [c1..c10\d]: the class between DI and ZHANG / JIE
CnDigitClass == CnOneToTen \cup Digits

\* [c1..c10 c100 c1000 c10000]: a bare native numeral
CnNumeralClass == CnOneToTen \cup {"c100", "c1000", "c10000"}

\* [c1..c10 c100 c1000 c10000\d]
CnNumeralDigitClass == CnNumeralClass \cup Digits

\* \w of a Python 3 str pattern: letters, digits, underscore and CJK characters
WordChars == Letters \cup Digits \cup {"_"} \cup CnNumeralClass \cup {"c0", "DI", "ZHANG", "JIE"}

\* what str.strip() removes
Whitespace == {" ", "\t", "\n"}

CnPunct == {"DUN", "CCOMMA", "CSTOP"}

\* [^DI]: every character a text can hold but DI
NotDi == (WordChars \cup Whitespace \cup CnPunct \cup {"."}) \ {"DI"}

\* ------------------------------------------------------------ str helpers
Min(S) == CHOOSE x \in S : \A y \in S : x <= y

Take(s, n) == SubSeq(s, 1, n)

Drop(s, n) == SubSeq(s, n + 1, Len(s))

\* number of consecutive characters of s from position i that lie in class
RECURSIVE RunLen(_, _, _)
RunLen(s, i, class) ==
    IF i > Len(s) THEN 0
    ELSE IF s[i] \notin class THEN 0
    ELSE 1 + RunLen(s, i + 1, class)

RECURSIVE LStripSet(_, _)
LStripSet(s, set) ==
    IF s = <<>> THEN s
    ELSE IF Head(s) \in set THEN LStripSet(Tail(s), set)
    ELSE s

RECURSIVE RStripSet(_, _)
RStripSet(s, set) ==
    IF s = <<>> THEN s
    ELSE IF s[Len(s)] \in set THEN RStripSet(Take(s, Len(s) - 1), set)
    ELSE s

\* str.strip()
Strip(s) == RStripSet(LStripSet(s, Whitespace), Whitespace)

\* the least element of hits, 0 when there is none
FirstOrZero(hits) == IF hits = {} THEN 0 ELSE Min(hits)

\* str.find(w) + 1: the first position of w in s, 0 when absent
Find(s, w) ==
    FirstOrZero({i \in 1..(Len(s) - Len(w) + 1) : SubSeq(s, i, i + Len(w) - 1) = w})

\* str.split(sep) for a one-character separator
RECURSIVE Split(_, _)
Split(s, sep) ==
    LET hits == {i \in 1..Len(s) : s[i] = sep}
    IN  IF hits = {} THEN <<s>>
        ELSE <<Take(s, Min(hits) - 1)>> \o Split(Drop(s, Min(hits)), sep)

\* int(s) of a string of decimal digits
RECURSIVE DecValue(_)
DecValue(s) ==
    IF s = <<>> THEN 0
    ELSE 10 * DecValue(Take(s, Len(s) - 1)) + (CHOOSE d \in 0..9 : ToString(d) = s[Len(s)])

\* ------------------------------------------------------------ ChapterMatcher
\* the result None of chinese_to_arabic (no numeral is negative)
NoneNum == -1

\* the result None where a text is expected (no text holds this character)
NoneText == <<"None">>

CnUnitVal(c) ==
    CASE c = "c0" -> 0 [] c = "c1" -> 1 [] c = "c2" -> 2 [] c = "c3" -> 3
      [] c = "c4" -> 4 [] c = "c5" -> 5 [] c = "c6" -> 6 [] c = "c7" -> 7
      [] c = "c8" -> 8 [] c = "c9" -> 9

CnUnits == {"c0", "c1", "c2", "c3", "c4", "c5", "c6", "c7", "c8", "c9"}

\* key in CHINESE_NUM_MAP: zero..thirty, hundred, thousand, ten-thousand
InChineseNumMap(s) ==
    \/ Len(s) = 1 /\ s[1] \in CnUnits \cup {"c10", "c100", "c1000", "c10000"}
    \/ Len(s) = 2 /\ s[1] = "c10" /\ s[2] \in CnUnits \ {"c0"}
    \/ Len(s) = 2 /\ s[1] \in {"c2", "c3"} /\ s[2] = "c10"
    \/ Len(s) = 3 /\ s[1] = "c2" /\ s[2] = "c10" /\ s[3] \in CnUnits \ {"c0"}

\* CHINESE_NUM_MAP[s]
ChineseNumMap(s) ==
    IF Len(s) = 1
    THEN CASE s[1] \in CnUnits -> CnUnitVal(s[1])
           [] s[1] = "c10" -> 10
           [] s[1] = "c100" -> 100
           [] s[1] = "c1000" -> 1000
           [] s[1] = "c10000" -> 10000
    ELSE IF Len(s) = 2 /\ s[1] = "c10" THEN 10 + CnUnitVal(s[2])
    ELSE IF Len(s) = 2 THEN 10 * CnUnitVal(s[1])
    ELSE 20 + CnUnitVal(s[3])

\* CHINESE_NUM_MAP.get(s, 0)
ChineseNumMapGet0(s) == IF InChineseNumMap(s) THEN ChineseNumMap(s) ELSE 0

\* chinese_to_arabic, the branch "len >= 2 and c10 in chinese_num"
ArabicOfSplit(s) ==
    LET parts == Split(s, "c10")
    IN  IF Len(s) >= 2 /\ (\E i \in 1..Len(s) : s[i] = "c10") /\ Len(parts) = 2
        THEN (IF parts[1] = <<>> THEN 1 ELSE ChineseNumMapGet0(parts[1])) * 10
             + ChineseNumMapGet0(parts[2])
        ELSE NoneNum

chinese_to_arabic(chinese_num) ==
    LET s == Strip(chinese_num)
        base == Take(s, Len(s) - 1)
    IN  IF chinese_num = <<>> THEN NoneNum
        ELSE IF s # <<>> /\ (\A i \in 1..Len(s) : s[i] \in Digits) THEN DecValue(s)
        ELSE IF InChineseNumMap(s) THEN ChineseNumMap(s)
        ELSE IF s # <<>> /\ s[Len(s)] = "c10" /\ base = <<>> THEN 10
        ELSE IF s # <<>> /\ s[Len(s)] = "c10" /\ InChineseNumMap(base)
             THEN ChineseNumMap(base) * 10
        ELSE ArabicOfSplit(s)

EnglishKeywords ==
    << <<"C", "h", "a", "p", "t", "e", "r">>, <<"S", "e", "c", "t", "i", "o", "n">>,
       <<"P", "a", "r", "t">>,
       <<"C", "H", "A", "P", "T", "E", "R">>, <<"S", "E", "C", "T", "I", "O", "N">>,
       <<"P", "A", "R", "T">> >>

\* re.search(r'\b[A-Za-z]{4,}\b', text): start of the leftmost match, 0 when none
EnglishWordStart(text) ==
    FirstOrZero({p \in 1..Len(text) :
                    LET n == RunLen(text, p, Letters)
                    IN  /\ (p = 1 \/ text[p - 1] \notin WordChars)
                        /\ n >= 4
                        /\ (p + n > Len(text) \/ text[p + n] \notin WordChars)})

\* remove_english_text: no keyword was found
CutAtWord(text) ==
    LET m == EnglishWordStart(text)
        chinese_part == Strip(Take(text, m - 1))
    IN  IF m # 0 /\ chinese_part # <<>> THEN chinese_part ELSE Strip(text)

remove_english_text(text) ==
    LET kws == {k \in 1..Len(EnglishKeywords) : Find(text, EnglishKeywords[k]) # 0}
    IN  IF text = <<>> THEN text
        ELSE IF kws # {}
        THEN Strip(Take(text, Find(text, EnglishKeywords[Min(kws)]) - 1))
        ELSE CutAtWord(text)

\* length of the longest (?:\.\d+)* at position i of s
RECURSIVE DottedTailLen(_, _)
DottedTailLen(s, i) ==
    LET n == RunLen(s, i + 1, Digits)
    IN  IF i > Len(s) THEN 0
        ELSE IF s[i] # "." THEN 0
        ELSE IF n > 0 THEN 1 + n + DottedTailLen(s, i + 1 + n)
        ELSE 0

\* re.match(r'^(\d+(?:\.\d+)*)', s): length of group 1, 0 when no match
DottedPrefixLen(s) ==
    LET n == RunLen(s, 1, Digits)
    IN  IF n = 0 THEN 0 ELSE n + DottedTailLen(s, 1 + n)

\* DI [c1..c10\d]+ mark matched at position p: position of the mark, 0 when no match
OrdinalAt(s, p, mark) ==
    LET n == RunLen(s, p + 1, CnDigitClass)
    IN  IF p <= Len(s) /\ n >= 1 /\ p + 1 + n <= Len(s)
        THEN (IF s[p] = "DI" /\ s[p + 1 + n] = mark THEN p + 1 + n ELSE 0)
        ELSE 0

\* DI..ZHANG[^DI]* matched at p: last position of the match, 0 when no match
ChapterRestAt(s, p) ==
    LET z == OrdinalAt(s, p, "ZHANG")
    IN  IF z = 0 THEN 0
        ELSE z + RunLen(s, z + 1, NotDi)

\* DI..ZHANG DI..JIE matched at p: last position of the match, 0 when no match
ChapterSectionAt(s, p) ==
    LET z == OrdinalAt(s, p, "ZHANG")
    IN  IF z = 0 THEN 0 ELSE OrdinalAt(s, z + 1, "JIE")

\* ([c1..c10 c100 c1000 c10000\d]+)[DUN CCOMMA CSTOP] matched at p: position of the
\* punctuation mark, 0 when no match
NumeralPunctAt(s, p) ==
    LET n == RunLen(s, p, CnNumeralDigitClass)
    IN  IF n >= 1 /\ p + n <= Len(s)
        THEN (IF s[p + n] \in CnPunct THEN p + n ELSE 0)
        ELSE 0

\* last position of the match of a pattern at position p, 0 when no match
\* ("section" is DI..JIE)
PatternEndAt(s, p, kind) ==
    CASE kind = "chapter_rest" -> ChapterRestAt(s, p)
      [] kind = "chapter_section" -> ChapterSectionAt(s, p)
      [] kind = "section" -> OrdinalAt(s, p, "JIE")
      [] kind = "numeral_punct" -> NumeralPunctAt(s, p)

\* re.search(pattern, s): <<start, end>> of the leftmost match, <<0, 0>> when none
SearchPattern(s, kind) ==
    LET p == FirstOrZero({q \in 1..Len(s) : PatternEndAt(s, q, kind) # 0})
    IN  IF p = 0 THEN <<0, 0>> ELSE <<p, PatternEndAt(s, p, kind)>>

\* match.group(0) of the match m of s
Group0(s, m) == SubSeq(s, m[1], m[2])

\* the patterns of a list that match somewhere in s
MatchingPatterns(s, patterns) ==
    {k \in 1..Len(patterns) : SearchPattern(s, patterns[k])[1] # 0}

\* the order of the patterns list of normalize_chapter
NormalizePatterns == <<"chapter_rest", "chapter_section", "section">>

\* normalize_chapter: hit are the patterns that match
NormalizeOrdinal(c, hit) ==
    IF hit # {}
    THEN remove_english_text(
             RStripSet(Group0(c, SearchPattern(c, NormalizePatterns[Min(hit)])), {"."}))
    ELSE RStripSet(c, {"."})

\* normalize_chapter of the stripped text without its English part
NormalizeClean(c) ==
    LET n == DottedPrefixLen(c)
    IN  IF n > 0 THEN Take(c, n)
        ELSE NormalizeOrdinal(c, MatchingPatterns(c, NormalizePatterns))

normalize_chapter(chapter) ==
    IF chapter = <<>> THEN <<>>
    ELSE NormalizeClean(RStripSet(remove_english_text(Strip(chapter)), {"."}))

\* the order of the chinese_patterns list of extract_chapter_info
ExtractPatterns == <<"chapter_section", "chapter_rest", "section", "numeral_punct">>

\* the leading dotted numeral of extract_chapter_info; a trailing ".0" segment is
\* dropped when an x follows it
LeadingNumeric(text_str, i) ==
    IF /\ i < Len(text_str)
       /\ i >= 2
       /\ text_str[i + 1] \in {"x", "X"}
       /\ SubSeq(text_str, i - 1, i) = <<".", "0">>
    THEN Take(text_str, i - 2)
    ELSE Take(text_str, i)

\* re.search(r'([c1..c10 c100 c1000 c10000\d]+)', s).group(1), NoneText when no match
FirstNumeralRun(s) ==
    LET p == FirstOrZero({q \in 1..Len(s) : s[q] \in CnNumeralDigitClass})
    IN  IF p = 0 THEN NoneText ELSE SubSeq(s, p, p + RunLen(s, p, CnNumeralDigitClass) - 1)

\* extract_chapter_info: the result for the matched text of a chinese_patterns entry
FromMatchedText(matched_text) ==
    LET num_match == FirstNumeralRun(matched_text)
    IN  IF (\E i \in 1..Len(matched_text) : matched_text[i] \in CnPunct)
           /\ num_match # NoneText
        THEN Strip(num_match)
        ELSE RStripSet(matched_text, CnPunct)

\* group 1 of the last-resort pattern matched at p: its last position, 0 when no match
\* (alternatives in order: dotted numeral, DI..ZHANG, DI..JIE, numeral run)
AnyChapterAt(s, p) ==
    LET dotted == DottedPrefixLen(Drop(s, p - 1))
        chapter == OrdinalAt(s, p, "ZHANG")
        section == OrdinalAt(s, p, "JIE")
        run == RunLen(s, p, CnNumeralDigitClass)
    IN  IF dotted > 0 THEN p - 1 + dotted
        ELSE IF chapter # 0 THEN chapter
        ELSE IF section # 0 THEN section
        ELSE IF run > 0 THEN p - 1 + run
        ELSE 0

\* a match of n characters from the start reaches the $ of the pattern ($ tolerates
\* one trailing newline)
ReachesEnd(s, n) ==
    /\ n > 0
    /\ \/ n = Len(s)
       \/ s[Len(s)] = "\n" /\ n = Len(s) - 1

\* re.match(r'^\d+(?:\.\d+)*$', s)
IsDotted(s) == ReachesEnd(s, DottedPrefixLen(s))

\* re.match(r'^[c1..c10 c100 c1000 c10000]+$', s)
IsCnNumeral(s) == ReachesEnd(s, RunLen(s, 1, CnNumeralClass))

\* extract_chapter_info: the checks on group 1 of the last-resort pattern
AcceptChapter(chapter) ==
    IF IsCnNumeral(chapter) THEN chapter
    ELSE IF IsDotted(chapter) THEN chapter
    ELSE IF /\ \E i \in 1..Len(chapter) : chapter[i] = "DI"
            /\ \E i \in 1..Len(chapter) : chapter[i] \in {"ZHANG", "JIE"}
         THEN RStripSet(chapter, CnPunct)
    ELSE NoneText

\* the last-resort search of extract_chapter_info matched at p (0: no match)
FromAnyChapterAt(text_str, p) ==
    IF p = 0 THEN NoneText
    ELSE AcceptChapter(remove_english_text(
                           Strip(SubSeq(text_str, p, AnyChapterAt(text_str, p)))))

FromAnyChapter(text_str) ==
    FromAnyChapterAt(text_str,
                     FirstOrZero({p \in 1..Len(text_str) : AnyChapterAt(text_str, p) # 0}))

\* extract_chapter_info: the fallback to normalize_chapter
FromNormalize(text_str, normalized) ==
    IF normalized # <<>> /\ normalized # RStripSet(text_str, {"."})
    THEN normalized
    ELSE NoneText

\* extract_chapter_info: chapter is the result of the last-resort search
ExtractLast(text_str, chapter) ==
    IF chapter # NoneText THEN chapter
    ELSE FromNormalize(text_str, normalize_chapter(text_str))

\* extract_chapter_info: hit are the chinese_patterns entries that match
ExtractChinese(text_str, hit) ==
    IF hit # {}
    THEN FromMatchedText(remove_english_text(
             Strip(Group0(text_str, SearchPattern(text_str, ExtractPatterns[Min(hit)])))))
    ELSE ExtractLast(text_str, FromAnyChapter(text_str))

\* extract_chapter_info of the stripped text without its English part
ExtractClean(text_str) ==
    LET n == DottedPrefixLen(text_str)
    IN  IF n > 0 THEN LeadingNumeric(text_str, n)
        ELSE ExtractChinese(text_str, MatchingPatterns(text_str, ExtractPatterns))

extract_chapter_info(text) ==
    IF text = <<>> THEN NoneText
    ELSE IF Strip(text) = <<>> THEN NoneText
    ELSE ExtractClean(remove_english_text(Strip(text)))

\* [int(x) for x in s.split('.')]
RECURSIVE IntParts(_)
IntParts(parts) ==
    IF parts = <<>> THEN <<>>
    ELSE <<DecValue(Head(parts))>> \o IntParts(Tail(parts))

\* get_chapter_levels: a bare native numeral
LevelsNumeral(normalized) ==
    LET num == chinese_to_arabic(normalized)
    IN  IF IsCnNumeral(normalized) /\ num # NoneNum THEN <<num>> ELSE <<>>

\* get_chapter_levels: DI..JIE at the start, z the position of JIE (0: no match)
LevelsSection(normalized, z) ==
    LET num == chinese_to_arabic(SubSeq(normalized, 2, z - 1))
    IN  IF z # 0 /\ num # NoneNum THEN <<num>> ELSE LevelsNumeral(normalized)

\* get_chapter_levels: DI..ZHANG at the start, z the position of ZHANG (0: no match)
LevelsChapter(normalized, z) ==
    LET num == chinese_to_arabic(SubSeq(normalized, 2, z - 1))
    IN  IF z # 0 /\ num # NoneNum THEN <<num>>
        ELSE LevelsSection(normalized, OrdinalAt(normalized, 1, "JIE"))

\* get_chapter_levels of the normalized label
LevelsOf(normalized) ==
    IF normalized = <<>> THEN <<>>
    ELSE IF IsDotted(normalized) THEN IntParts(Split(normalized, "."))
    ELSE LevelsChapter(normalized, OrdinalAt(normalized, 1, "ZHANG"))

get_chapter_levels(chapter) ==
    IF chapter = <<>> THEN <<>> ELSE LevelsOf(normalize_chapter(chapter))

\* is_parent_chapter on the normalized labels a, b and their levels
ParentByLevels(a, b, levels_a, levels_b) ==
    LET remaining == Strip(Drop(b, Len(a)))
    IN  IF /\ levels_a # <<>> /\ levels_b # <<>>
           /\ Len(levels_a) < Len(levels_b)
           /\ levels_a = Take(levels_b, Len(levels_a))
        THEN TRUE
        ELSE IF /\ levels_a # <<>> /\ levels_b # <<>>
                /\ Len(levels_a) = 1 /\ Len(levels_b) > 0
                /\ levels_a[1] = levels_b[1]
             THEN TRUE
        ELSE IF Len(a) <= Len(b) /\ Take(b, Len(a)) = a
             THEN remaining # <<>> /\ remaining[1] \in {"DI", ".", "JIE"}
        ELSE FALSE

\* an is_parent_chapter without the test for equal normalized labels
ParentOfEqualLabels(a, b) ==
    IF a = <<>> \/ b = <<>> THEN FALSE
    ELSE ParentByLevels(a, b, get_chapter_levels(a), get_chapter_levels(b))

ParentNormalized(a, b) ==
    IF a = <<>> \/ b = <<>> THEN FALSE
    ELSE IF a = b THEN FALSE
    ELSE ParentByLevels(a, b, get_chapter_levels(a), get_chapter_levels(b))

is_parent_chapter(chapter_a, chapter_b) ==
    IF chapter_a = <<>> \/ chapter_b = <<>> THEN FALSE
    ELSE ParentNormalized(normalize_chapter(chapter_a), normalize_chapter(chapter_b))

\* an is_valid_match that also accepts a retrieval below the reference
ValidInEitherDirection(retrieved_normalized, reference_normalized, retrieved_levels, reference_levels) ==
    IF /\ retrieved_levels # <<>> /\ reference_levels # <<>>
       /\ retrieved_levels = reference_levels
    THEN TRUE
    ELSE \/ is_parent_chapter(retrieved_normalized, reference_normalized)
         \/ is_parent_chapter(reference_normalized, retrieved_normalized)

\* is_valid_match on the normalized labels and their levels
ValidByLevels(retrieved_normalized, reference_normalized, retrieved_levels, reference_levels) ==
    IF /\ retrieved_levels # <<>> /\ reference_levels # <<>>
       /\ retrieved_levels = reference_levels
    THEN TRUE
    ELSE IF /\ retrieved_levels # <<>> /\ reference_levels # <<>>
            /\ Len(retrieved_levels) = 1 /\ Len(reference_levels) = 1
            /\ retrieved_levels[1] = reference_levels[1]
         THEN TRUE
    ELSE is_parent_chapter(retrieved_normalized, reference_normalized)

\* an is_valid_match without the test for equal normalized labels
ValidWithoutEquality(retrieved_normalized, reference_normalized) ==
    IF retrieved_normalized = <<>> \/ reference_normalized = <<>> THEN FALSE
    ELSE ValidByLevels(retrieved_normalized, reference_normalized,
                       get_chapter_levels(retrieved_normalized),
                       get_chapter_levels(reference_normalized))

ValidNormalized(retrieved_normalized, reference_normalized) ==
    IF retrieved_normalized = <<>> \/ reference_normalized = <<>> THEN FALSE
    ELSE IF retrieved_normalized = reference_normalized THEN TRUE
    ELSE ValidByLevels(retrieved_normalized, reference_normalized,
                       get_chapter_levels(retrieved_normalized),
                       get_chapter_levels(reference_normalized))

is_valid_match(retrieved_chapter, reference_chapter) ==
    IF retrieved_chapter = <<>> \/ reference_chapter = <<>> THEN FALSE
    ELSE ValidNormalized(normalize_chapter(retrieved_chapter),
                         normalize_chapter(reference_chapter))

\* ------------------------------------------------------------ item scoring
\* a key that the result dict does not hold (a NaN cell of the DataFrame)
Missing == -2

\* the value None of a score
Null == -1

IsScore(x) == x >= 0

\* the entries of a retrieved_chunks_json list: a JSON string; a chunk whose
\* document_name is a chapter; one with a chapter in its content only; one whose
\* second keyword is the first text that holds a chapter
ChunkKinds ==
    { [is_dict |-> FALSE, document_name |-> <<>>, content |-> <<>>,
       important_keywords |-> <<>>],
      [is_dict |-> TRUE, document_name |-> <<"1">>, content |-> <<"2">>,
       important_keywords |-> <<>>],
      [is_dict |-> TRUE, document_name |-> <<>>, content |-> <<"2">>,
       important_keywords |-> <<>>],
      [is_dict |-> TRUE, document_name |-> <<".">>, content |-> <<>>,
       important_keywords |-> << <<".">>, <<"1", ".", "2">> >>] }

\* retrieved_chunks_json: the empty string (kind "empty"), text that is not JSON, a
\* JSON value that is not a list, a JSON list of chunks
\* rows of the CSV as load_test_cases_from_csv yields them; answer_chapter is already
\* derived from the answer when the column is empty, malformed rows make
\* evaluate_single_case raise (retrieved_chunks_json nested too deep for json.loads)
CaseKinds ==
    { [answer_chapter |-> <<"1">>, reference |-> <<"1", ".", "2">>,
       retrieved_context |-> TRUE, malformed |-> FALSE,
       retrieved_chunks_json |->
           [kind |-> "list",
            chunks |-> << [is_dict |-> TRUE, document_name |-> <<"1">>,
                           content |-> <<"2">>, important_keywords |-> <<>>] >>]],
      [answer_chapter |-> <<"1", "4">>, reference |-> <<"DI", "c1", "ZHANG">>,
       retrieved_context |-> FALSE, malformed |-> FALSE,
       retrieved_chunks_json |-> [kind |-> "empty", chunks |-> <<>>]],
      [answer_chapter |-> <<"DI", "c1", "ZHANG">>, reference |-> <<"1">>,
       retrieved_context |-> TRUE, malformed |-> TRUE,
       retrieved_chunks_json |-> [kind |-> "too_deep", chunks |-> <<>>]] }

\* what one call of the judge adapter does (Missing: the metric is not in the
\* mapping): it raises; all four metrics are scored; only factual correctness is
\* scored and the relevancy is None
JudgeOutcomes ==
    { [raises |-> TRUE, fc |-> Missing, fa |-> Missing, cr |-> Missing, ar |-> Missing],
      [raises |-> FALSE, fc |-> 100, fa |-> 80, cr |-> 60, ar |-> 100],
      [raises |-> FALSE, fc |-> 60, fa |-> Missing, cr |-> Missing, ar |-> Null] }

\* no adapter call was made
JudgeNotCalled == [raises |-> FALSE, fc |-> Missing, fa |-> Missing, cr |-> Missing, ar |-> Missing]

\* the result dict before any scorer ran (only the passthrough columns)
BaseResult(idx) ==
    [question |-> idx, error |-> FALSE,
     recall_at_3 |-> Missing, recall_at_5 |-> Missing, recall_at_10 |-> Missing,
     chapter_match_accuracy |-> Missing,
     fc |-> Missing, fa |-> Missing, cr |-> Missing, ar |-> Missing,
     core |-> Missing, overall |-> Missing, quality |-> Missing, ragas_error |-> FALSE,
     hybrid_score |-> Missing, hybrid_matched |-> Missing]

\* the first text of a chunk from which extract_chapter_info yields a chapter; infos
\* are its results in the order in which the chunk is searched
FirstChapter(infos) ==
    LET found == {k \in 1..Len(infos) : infos[k] \notin {NoneText, <<>>}}
    IN  IF found = {} THEN NoneText ELSE infos[Min(found)]

\* extract_chapter_from_chunk: document_name, then content, then the keywords are
\* searched; a chunk of the model has no other metadata string
extract_chapter_from_chunk(chunk) ==
    IF ~chunk.is_dict THEN NoneText
    ELSE FirstChapter([k \in 1..(2 + Len(chunk.important_keywords)) |->
             extract_chapter_info(IF k = 1 THEN chunk.document_name
                                  ELSE IF k = 2 THEN chunk.content
                                  ELSE chunk.important_keywords[k - 2])])

\* a recall that looks at the k-th chunk only
RecallOfKthChunk(retrieved_chunks_json, reference_chapter, k) ==
    IF retrieved_chunks_json.kind # "list" \/ reference_chapter \in {NoneText, <<>>}
       \/ Len(retrieved_chunks_json.chunks) < k
    THEN 0
    ELSE IF \E chunk_chapter \in {extract_chapter_from_chunk(retrieved_chunks_json.chunks[k])} :
               chunk_chapter # NoneText /\ is_valid_match(chunk_chapter, reference_chapter)
    THEN 100 ELSE 0

\* calculate_recall_at_k_from_chunks: json.loads fails or yields no list: 0.0
calculate_recall_at_k_from_chunks(retrieved_chunks_json, reference_chapter, k) ==
    IF retrieved_chunks_json.kind = "empty" \/ reference_chapter \in {NoneText, <<>>}
    THEN 0
    ELSE IF retrieved_chunks_json.kind # "list" \/ retrieved_chunks_json.chunks = <<>>
    THEN 0
    ELSE IF \E i \in 1..Min({k, Len(retrieved_chunks_json.chunks)}) :
               \E chunk_chapter \in {extract_chapter_from_chunk(retrieved_chunks_json.chunks[i])} :
                  chunk_chapter # NoneText /\ is_valid_match(chunk_chapter, reference_chapter)
    THEN 100 ELSE 0

\* the recall@K block of evaluate_single_case: recall_at_3, recall_at_5, recall_at_10;
\* a reference without a chapter gives 0.0 here as it does in
\* calculate_recall_at_k_from_chunks
RecallAt(test_case) ==
    [k \in {3, 5, 10} |->
        IF test_case.retrieved_chunks_json.kind # "empty" /\ test_case.reference # <<>>
        THEN calculate_recall_at_k_from_chunks(test_case.retrieved_chunks_json,
                                               extract_chapter_info(test_case.reference), k)
        ELSE 0]

\* RecallAt of every row a table can hold, evaluated once
RecallOfRow == [test_case \in CaseKinds |-> RecallAt(test_case)]

\* the three recall columns of r are written from the recalls of the row
WithRecall(r, test_case) ==
    CHOOSE with_recall \in {[r EXCEPT !.recall_at_3 = recall[3],
                                      !.recall_at_5 = recall[5],
                                      !.recall_at_10 = recall[10]] :
                                recall \in {RecallOfRow[test_case]}} : TRUE

evaluate_chapter_match(test_case) ==
    LET answer_chapter == test_case.answer_chapter
        reference_chapter == IF test_case.reference # <<>>
                             THEN extract_chapter_info(test_case.reference)
                             ELSE NoneText
    IN  IF /\ answer_chapter # <<>>
           /\ reference_chapter # NoneText /\ reference_chapter # <<>>
           /\ is_valid_match(answer_chapter, reference_chapter)
        THEN 100 ELSE 0

\* core_score of evaluate_comprehensive: the mean of the core metrics in the mapping
CoreScore(o) ==
    IF o.fc # Missing /\ o.fa # Missing THEN (o.fc + o.fa) \div 2
    ELSE IF o.fc # Missing THEN o.fc
    ELSE IF o.fa # Missing THEN o.fa
    ELSE Missing

\* overall_score of evaluate_comprehensive
OverallScore(o) ==
    LET aux == {m \in {"cr", "ar"} : IsScore(o[m])}
    IN  IF CoreScore(o) # Missing THEN CoreScore(o)
        ELSE IF aux = {} THEN 0
        ELSE IF Cardinality(aux) = 2 THEN (o.cr + o.ar) \div 2
        ELSE o[CHOOSE m \in aux : TRUE]

\* dict.get(key, None) on a metric: a missing metric reads as None
ScoreOrNull(x) == IF x = Missing THEN Null ELSE x

\* the columns evaluate_ragas adds to the result dict r; evaluate_comprehensive
\* raises by itself, or in sum(core_scores) on a None score
evaluate_ragas(r, o) ==
    IF o.raises \/ o.fc = Null \/ o.fa = Null
    THEN [r EXCEPT !.fc = Null, !.fa = Null, !.cr = Null, !.ar = Null,
                   !.overall = 0, !.core = Null, !.ragas_error = TRUE, !.quality = Null]
    ELSE [r EXCEPT !.fc = ScoreOrNull(o.fc), !.fa = ScoreOrNull(o.fa),
                   !.cr = ScoreOrNull(o.cr), !.ar = ScoreOrNull(o.ar),
                   !.core = ScoreOrNull(CoreScore(o)), !.overall = OverallScore(o),
                   !.quality = ScoreOrNull(o.fc)]

\* hybrid_score, in thousandths: 0.4 x chapter accuracy + 0.6 x overall judge score
HybridScore(r) ==
    (IF IsScore(r.chapter_match_accuracy) THEN r.chapter_match_accuracy ELSE 0) * 4
    + (IF IsScore(r.overall) THEN r.overall ELSE 0) * 6

HybridMatched(r) ==
    IF r.chapter_match_accuracy = 100 /\ IsScore(r.overall) /\ r.overall >= 70 THEN 1 ELSE 0

\* the scorer branches of evaluate_single_case; has_evaluator: ragas_evaluator is set
\* evaluate_chapter_match of every row a table can hold, evaluated once
ChapterMatchOfRow == [test_case \in CaseKinds |-> evaluate_chapter_match(test_case)]

WithChapterMatch(r, test_case, mode) ==
    IF mode \in {"chapter_match", "hybrid"}
    THEN [r EXCEPT !.chapter_match_accuracy = ChapterMatchOfRow[test_case]]
    ELSE r

WithRagas(r, mode, has_evaluator, o) ==
    IF mode \notin {"ragas", "hybrid"} THEN r
    ELSE IF ~has_evaluator THEN [r EXCEPT !.quality = Null, !.ar = Null, !.overall = Null]
    ELSE evaluate_ragas(r, o)

\* a scorer that blends in every mode
WithHybridInEveryMode(r, mode) ==
    [r EXCEPT !.hybrid_score = HybridScore(r), !.hybrid_matched = HybridMatched(r)]

WithHybrid(r, mode) ==
    IF mode = "hybrid"
    THEN [r EXCEPT !.hybrid_score = HybridScore(r), !.hybrid_matched = HybridMatched(r)]
    ELSE r

evaluate_single_case(idx, test_case, mode, has_evaluator, o) ==
    WithHybrid(WithRagas(WithChapterMatch(WithRecall(BaseResult(idx), test_case),
                                          test_case, mode),
                         mode, has_evaluator, o), mode)

\* a log line that prints the relevancy score without a format specification
LogLineNeverRaises(r, mode) == FALSE

\* the per-item log line formats the relevancy score with :.2f, which raises
\* TypeError on None
LogLineRaises(r, mode) == mode \in {"ragas", "hybrid"} /\ r.ar # Missing /\ r.ar = Null

\* an except branch that marks the partial result as failed instead of rebuilding it
ErrorResultKeepsScores(idx, partial) == [partial EXCEPT !.error = TRUE]

\* the error_result of the except branch
ErrorResult(idx, partial) == [BaseResult(idx) EXCEPT !.error = TRUE]

\* a progress callback awaited outside a try/except
CallbackErrorEscapes(raised) == raised

\* the try/except around the progress callback: does its exception leave the block
CallbackErrorPropagates(raised) == FALSE

\* a permit given back by a release() on the normal path only
PermitKeptOnFailure(failed) == ~failed

\* async with semaphore: is the permit given back when the body ends (failed or not)
PermitReleased(failed) == TRUE

\* a gate that never blocks
SemaphoreNeverLocked(value, waiting) == FALSE

\* Semaphore.locked(): no permit left, or somebody already waits
SemaphoreLocked(value, waiting) == value = 0 \/ waiting # <<>>

\* a loader result that is never checked for emptiness
EmptyTableAccepted(n) == FALSE

\* "if total == 0: raise ValueError" right after the loader returned
EmptyTableFatal(n) == n = 0

\* a raise on the failed RagasEvaluator() that does not look at the mode
InitFailureFatalInEveryJudgeMode(mode) == mode \in {"ragas", "hybrid"}

\* a failed RagasEvaluator() aborts the run in this mode
InitFailureFatal(mode) == mode = "ragas"

\* ------------------------------------------------------------- aggregation
\* list.sort(key=lambda x: x[0]), a stable sort: the k-th entry is the one with k - 1
\* entries before it
SortList(list) ==
    [k \in 1..Len(list) |->
        list[CHOOSE i \in 1..Len(list) :
                 k = 1 + Cardinality({j \in 1..Len(list) :
                                         \/ list[j].idx < list[i].idx
                                         \/ list[j].idx = list[i].idx /\ j < i})]]

\* a sort with reverse=True
SortByIdxDescending(list) == [k \in 1..Len(list) |-> SortList(list)[Len(list) + 1 - k]]

\* indexed_results.sort(key=lambda x: x[0])
SortByIdx(list) == SortList(list)

\* the sum of the first k values of a column, cells without a value skipped
RECURSIVE SumFirst(_, _, _)
SumFirst(rs, field, k) ==
    IF k = 0 THEN 0
    ELSE SumFirst(rs, field, k - 1) + (IF IsScore(rs[k][field]) THEN rs[k][field] ELSE 0)

CountScores(rs, field) == Cardinality({k \in 1..Len(rs) : IsScore(rs[k][field])})

\* a summary key that is not set
AbsentMean == [state |-> "absent", sum |-> 0, n |-> 0]

\* df[col].dropna().mean(), set only when the column holds a value: sum and sample count
MeanOf(rs, field) ==
    IF CountScores(rs, field) = 0 THEN AbsentMean
    ELSE [state |-> "mean", sum |-> SumFirst(rs, field, Len(rs)), n |-> CountScores(rs, field)]

\* a judge metric of the summary; without an evaluator the key is set to None
JudgeMean(rs, field, mode, evaluator) ==
    IF mode \notin {"ragas", "hybrid"} THEN AbsentMean
    ELSE IF ~evaluator THEN [state |-> "null", sum |-> 0, n |-> 0]
    ELSE MeanOf(rs, field)

\* the sum of a list of scores
RECURSIVE Sum(_)
Sum(scores) == IF scores = <<>> THEN 0 ELSE Head(scores) + Sum(Tail(scores))

\* the summary holds no generalization_score; as a value: state "zero" is 0.0 and
\* state "exp" is exp(-cv), cv being the square root of cv_sq_num / cv_sq_den
NoGeneralization == [state |-> "absent", cv_sq_num |-> 0, cv_sq_den |-> 1]

\* a generalization score without the test of a zero average
ZeroAverageIgnored(total) == FALSE

\* if avg_score == 0: return 0.0
ZeroAverage(total) == total = 0

\* a generalization score without the cap of cv
CvNeverCapped(cv_sq_num, cv_sq_den) == FALSE

\* min(cv, 2.0) is 2.0
CvCapped(cv_sq_num, cv_sq_den) == cv_sq_num \div 4 >= cv_sq_den

\* calculate_generalization_score on the question types S1 .. S6; mean(t) is the
\* mean of type t times the product of the list lengths, total the sum of these
\* means, and cv * cv = sum((count * mean(t) - total)^2) / (count * total^2)
calculate_generalization_score(results_by_type) ==
    LET typed == {t \in DOMAIN results_by_type : results_by_type[t] # <<>>}
        count == Cardinality(typed)
        length(t) == IF t \in typed THEN Len(results_by_type[t]) ELSE 1
        lengths == length("S1") * length("S2") * length("S3")
                       * length("S4") * length("S5") * length("S6")
        mean(t) == IF t \in typed
                   THEN (Sum(results_by_type[t]) * lengths) \div length(t) ELSE 0
        total == mean("S1") + mean("S2") + mean("S3") + mean("S4") + mean("S5") + mean("S6")
        square(t) == IF t \in typed
                     THEN (count * mean(t) - total) * (count * mean(t) - total) ELSE 0
        cv_sq_num == square("S1") + square("S2") + square("S3")
                         + square("S4") + square("S5") + square("S6")
        cv_sq_den == count * total * total
    IN  IF DOMAIN results_by_type = {} \/ count < 2 \/ ZeroAverage(total)
        THEN [state |-> "zero", cv_sq_num |-> 0, cv_sq_den |-> 1]
        ELSE IF total <= 0 \/ CvCapped(cv_sq_num, cv_sq_den)
        THEN [state |-> "exp", cv_sq_num |-> 4, cv_sq_den |-> 1]
        ELSE [state |-> "exp", cv_sq_num |-> cv_sq_num, cv_sq_den |-> cv_sq_den]

\* generalization_score of the summary: results_by_type holds the types with a score
\* and the key is set when there are two of them
SummaryGeneralization(by_type) ==
    LET typed == {t \in DOMAIN by_type : by_type[t] # <<>>}
    IN  IF Cardinality(typed) >= 2
        THEN calculate_generalization_score([t \in typed |-> by_type[t]])
        ELSE NoGeneralization

NoSummary ==
    [built |-> FALSE, total_questions |-> 0,
     retrieval_with_context_count |-> 0, retrieval_without_context_count |-> 0,
     ragas_available |-> FALSE, chapter_match_accuracy |-> AbsentMean,
     fc |-> AbsentMean, fa |-> AbsentMean, cr |-> AbsentMean, ar |-> AbsentMean,
     core |-> AbsentMean, overall |-> AbsentMean, quality |-> AbsentMean,
     hybrid_score |-> AbsentMean, hybrid_correct_count |-> Missing]

\* the summary dict of run_evaluation
Summarize(rs, mode, evaluator, init_error, with_ctx, without_ctx) ==
    [built |-> TRUE, total_questions |-> Len(rs),
     retrieval_with_context_count |-> with_ctx,
     retrieval_without_context_count |-> without_ctx,
     ragas_available |-> (~init_error /\ mode \in {"ragas", "hybrid"}),
     chapter_match_accuracy |-> IF mode \in {"chapter_match", "hybrid"}
                                THEN MeanOf(rs, "chapter_match_accuracy") ELSE AbsentMean,
     fc |-> JudgeMean(rs, "fc", mode, evaluator),
     fa |-> JudgeMean(rs, "fa", mode, evaluator),
     cr |-> JudgeMean(rs, "cr", mode, evaluator),
     ar |-> JudgeMean(rs, "ar", mode, evaluator),
     core |-> JudgeMean(rs, "core", mode, evaluator),
     overall |-> JudgeMean(rs, "overall", mode, evaluator),
     quality |-> JudgeMean(rs, "quality", mode, evaluator),
     hybrid_score |-> IF mode = "hybrid" THEN MeanOf(rs, "hybrid_score") ELSE AbsentMean,
     hybrid_correct_count |-> IF mode = "hybrid" /\ CountScores(rs, "hybrid_matched") > 0
                              THEN SumFirst(rs, "hybrid_matched", Len(rs)) ELSE Missing]

\* ------------------------------------------------------------------- state
VARIABLES
    pair_a, pair_b, pair_out,         \* the matcher applied to a pair of labels
    phase,                            \* where run_evaluation stands
    test_cases, mode, has_callback,   \* the inputs of run_evaluation
    has_evaluator, ragas_init_error,  \* ragas_evaluator is set / its init failed
    max_concurrent, llm_max_concurrent,  \* EVAL_MAX_CONCURRENT, LLM_MAX_CONCURRENT
    semaphore, waiters,               \* the Semaphore: its value, its FIFO of waiters
    completed_count,                  \* completed_count
    lock_holder, lock_waiters,        \* completed_lock: its holder (0: free), its FIFO
    with_context, without_context,    \* retrieval_stats
    pc,                               \* where every evaluate_with_semaphore task stands
    work,                             \* the result dict of evaluate_single_case of every task
    task_results,                     \* what every task returned: (idx, result)
    results, summary,                 \* the ordered results and the summary
    judge_outcome, sink_raised,       \* history: what the adapter / the callback did
    sink_calls, completion_order,     \* history: callback invocations, return order
    scored,                           \* evaluate_single_case applied to one row
    recalled,                         \* the recall@K block applied to one row
    generalized,                      \* the generalization score of one grouping
    extracted,                        \* extract_chapter_info applied to one text
    llm                               \* the throttle of the LLM client and its callers

matcher_vars == <<pair_a, pair_b, pair_out>>

\* the scorers and the LLM client on their own
scorer_vars == <<scored, recalled, generalized, extracted, llm>>

\* what the tasks share and change
task_vars == <<semaphore, waiters, completed_count, lock_holder, lock_waiters,
               with_context, without_context, pc, work, task_results, sink_calls,
               completion_order>>

run_vars == <<phase, test_cases, mode, has_callback, has_evaluator, ragas_init_error,
              max_concurrent, llm_max_concurrent, results, summary, judge_outcome,
              sink_raised, task_vars>>

vars == <<matcher_vars, scorer_vars, run_vars>>

total == Len(test_cases)

Items == 1..total

MatchIdle == [done |-> FALSE, parent_ab |-> FALSE, valid_ab |-> FALSE, valid_ba |-> FALSE]

\* evaluate_single_case is not in use on its own
ScoreIdle ==
    [done |-> FALSE, test_case |-> <<>>, mode |-> "chapter_match", has_evaluator |-> FALSE,
     outcome |-> JudgeNotCalled, result |-> BaseResult(0)]

\* the generalization score is not in use on its own
GeneralizationIdle ==
    [done |-> FALSE, results_by_type |-> <<>>, score |-> NoGeneralization,
     summary |-> NoGeneralization]

\* extract_chapter_info is not in use on its own
ExtractIdle == [done |-> FALSE, text |-> <<>>, chapter_info |-> NoneText, normalized |-> NoneText]

\* no coroutine calls call_llm: the module of the LLM client as it is after import
LlmIdle ==
    [api_key |-> TRUE, permits |-> 1, semaphore |-> 1, lock_holder |-> 0, recent |-> FALSE,
     pc |-> [c \in 1..MaxCallers |-> "returned"]]

\* the recall@K block is not in use on its own
RecallIdle == [done |-> FALSE, test_case |-> <<>>, recall |-> <<>>]

\* no run has been started
RunIdle(cases) ==
    /\ phase = "Idle"
    /\ test_cases = cases
    /\ has_evaluator = FALSE /\ ragas_init_error = FALSE
    /\ max_concurrent = 0 /\ llm_max_concurrent = 0
    /\ semaphore = 0 /\ waiters = <<>>
    /\ completed_count = 0
    /\ lock_holder = 0 /\ lock_waiters = <<>>
    /\ with_context = 0 /\ without_context = 0
    /\ pc = [i \in 1..Len(cases) |-> "idle"]
    /\ work = [i \in 1..Len(cases) |-> BaseResult(i)]
    /\ task_results = [i \in 1..Len(cases) |-> [idx |-> i, result |-> BaseResult(i)]]
    /\ results = <<>> /\ summary = NoSummary
    /\ judge_outcome = [i \in 1..Len(cases) |-> JudgeNotCalled]
    /\ sink_raised = [i \in 1..Len(cases) |-> FALSE]
    /\ sink_calls = <<>> /\ completion_order = <<>>

\* run_evaluation is about to be called on a table of at most MaxCases rows; the
\* matcher is not in use during a run
Init ==
    /\ pair_a = <<>> /\ pair_b = <<>> /\ pair_out = MatchIdle
    /\ scored = ScoreIdle /\ recalled = RecallIdle /\ generalized = GeneralizationIdle
    /\ extracted = ExtractIdle
    /\ mode \in {"chapter_match", "ragas", "hybrid"}
    /\ has_callback \in BOOLEAN
    /\ llm = LlmIdle
    /\ \E cases \in UNION {[1..n -> CaseKinds] : n \in 0..MaxCases} : RunIdle(cases)

\* --------------------------------------------------------------- run_evaluation
\* run_evaluation is called
StartRun ==
    /\ phase = "Idle"
    /\ phase' = "Loading"
    /\ UNCHANGED <<matcher_vars, scorer_vars, test_cases, mode, has_callback, has_evaluator,
                   ragas_init_error, max_concurrent, llm_max_concurrent, results,
                   summary, judge_outcome, sink_raised, task_vars>>

\* load_test_cases_from_csv returned; an empty table raises ValueError
LoadTestCases ==
    /\ phase = "Loading"
    /\ phase' = IF EmptyTableFatal(total) THEN "Failed" ELSE "InitJudge"
    /\ UNCHANGED <<matcher_vars, scorer_vars, test_cases, mode, has_callback, has_evaluator,
                   ragas_init_error, max_concurrent, llm_max_concurrent, results,
                   summary, judge_outcome, sink_raised, task_vars>>

\* RagasEvaluator() is built when the mode needs it; it succeeds (ok) or raises
InitRagas(ok) ==
    /\ phase = "InitJudge"
    /\ IF mode \notin {"ragas", "hybrid"}
       THEN ok /\ phase' = "Setup" /\ UNCHANGED <<has_evaluator, ragas_init_error>>
       ELSE IF ok
       THEN phase' = "Setup" /\ has_evaluator' = TRUE /\ UNCHANGED ragas_init_error
       ELSE /\ ragas_init_error' = TRUE
            /\ phase' = IF InitFailureFatal(mode) THEN "Failed" ELSE "Setup"
            /\ UNCHANGED has_evaluator
    /\ UNCHANGED <<matcher_vars, scorer_vars, test_cases, mode, has_callback, max_concurrent,
                   llm_max_concurrent, results, summary, judge_outcome, sink_raised,
                   task_vars>>

\* the concurrency settings are read, the Semaphore and the tasks are created and
\* handed to asyncio.gather; asyncio.Semaphore raises ValueError on a negative value
StartScoring(eval_max, llm_max) ==
    /\ phase = "Setup"
    /\ max_concurrent' = eval_max
    /\ llm_max_concurrent' = llm_max
    /\ IF eval_max < 0 \/ llm_max < 0
       THEN phase' = "Failed" /\ UNCHANGED <<semaphore, pc>>
       ELSE /\ phase' = "Scoring"
            /\ semaphore' = IF eval_max <= llm_max THEN eval_max ELSE llm_max
            /\ pc' = [i \in Items |-> "created"]
    /\ UNCHANGED <<matcher_vars, scorer_vars, test_cases, mode, has_callback, has_evaluator,
                   ragas_init_error, waiters, completed_count, lock_holder, lock_waiters,
                   with_context, without_context, work, task_results, results, summary,
                   judge_outcome, sink_raised, sink_calls, completion_order>>

\* min(max_concurrent, llm_max_concurrent)
effective_max_concurrent ==
    IF max_concurrent <= llm_max_concurrent THEN max_concurrent ELSE llm_max_concurrent

\* ------------------------------------------------------ evaluate_with_semaphore
\* A task runs without interruption from one suspension point to the next (the
\* Semaphore, the adapter call, completed_lock, the progress callback).  The
\* operators below take the shared state st at a point of the task of item i and
\* yield the shared state at its next suspension point or at its return.
Shared ==
    [semaphore |-> semaphore, waiters |-> waiters, completed_count |-> completed_count,
     lock_holder |-> lock_holder, lock_waiters |-> lock_waiters,
     with_context |-> with_context, without_context |-> without_context,
     pc |-> pc, work |-> work, task_results |-> task_results,
     sink_calls |-> sink_calls, completion_order |-> completion_order]

\* the shared state becomes st
Becomes(st) ==
    /\ semaphore' = st.semaphore
    /\ waiters' = st.waiters
    /\ completed_count' = st.completed_count
    /\ lock_holder' = st.lock_holder
    /\ lock_waiters' = st.lock_waiters
    /\ with_context' = st.with_context
    /\ without_context' = st.without_context
    /\ pc' = st.pc
    /\ work' = st.work
    /\ task_results' = st.task_results
    /\ sink_calls' = st.sink_calls
    /\ completion_order' = st.completion_order

\* a Semaphore that wakes the task that has waited least
WakeNewestFirst(waiting) ==
    IF waiting = <<>> THEN <<>>
    ELSE <<waiting[Len(waiting)]>> \o SubSeq(waiting, 1, Len(waiting) - 1)

\* Semaphore.release() wakes the task that has waited longest
WakeOrder(waiting) == waiting

\* return (idx, r): the async with semaphore block is left, which hands the permit to
\* the first waiter when there is one
Return(st, i, r, failed) ==
    IF ~PermitReleased(failed)
    THEN [st EXCEPT !.task_results[i] = [idx |-> i, result |-> r],
                    !.completion_order = Append(@, i),
                    !.pc[i] = "done"]
    ELSE IF st.waiters # <<>>
    THEN [st EXCEPT !.task_results[i] = [idx |-> i, result |-> r],
                    !.completion_order = Append(@, i),
                    !.pc = [@ EXCEPT ![i] = "done", ![Head(WakeOrder(st.waiters))] = "running"],
                    !.waiters = Tail(WakeOrder(@))]
    ELSE [st EXCEPT !.task_results[i] = [idx |-> i, result |-> r],
                    !.completion_order = Append(@, i),
                    !.pc[i] = "done",
                    !.semaphore = @ + 1]

\* completed_count += 1 and the retrieval_stats update that follows it
Counted(st, i) ==
    [st EXCEPT !.completed_count = @ + 1,
               !.with_context = IF test_cases[i].retrieved_context THEN @ + 1 ELSE @,
               !.without_context = IF test_cases[i].retrieved_context THEN @ ELSE @ + 1]

\* a completed_lock that never makes a task wait
LockNeverHeld(st) == TRUE

\* Lock.acquire() returns at once: the lock is free and nobody waits for it
LockFree(st) == st.lock_holder = 0 /\ st.lock_waiters = <<>>

\* the except branch under completed_lock
ExceptLocked(st, i) == Return(Counted(st, i), i, ErrorResult(i, st.work[i]), TRUE)

\* the except branch from its start
Except(st, i) ==
    IF LockFree(st) THEN ExceptLocked(st, i)
    ELSE [st EXCEPT !.pc[i] = "failing", !.lock_waiters = Append(@, i)]

\* the block under completed_lock after evaluate_single_case: the item is counted,
\* the log line is written (an exception leaves the block and frees the lock), the
\* progress callback is called when there is one
Locked(st, i) ==
    IF LogLineRaises(st.work[i], mode) THEN Except(Counted(st, i), i)
    ELSE IF has_callback
    THEN [Counted(st, i) EXCEPT
              !.pc[i] = "in_sink",
              !.lock_holder = i,
              !.sink_calls = Append(@, [item |-> i,
                                        completed |-> st.completed_count + 1,
                                        total |-> total])]
    ELSE Return(Counted(st, i), i, st.work[i], FALSE)

\* evaluate_single_case returned r
Scored(st, i, r) ==
    IF LockFree(st) THEN Locked([st EXCEPT !.work[i] = r], i)
    ELSE [st EXCEPT !.work[i] = r, !.pc[i] = "counting", !.lock_waiters = Append(@, i)]

\* evaluate_single_case from its judge block on; the scorers before it left their
\* columns in work[i].  The adapter call suspends the task; without an adapter the
\* task goes on to completed_lock
Judge(st, i) ==
    IF mode \in {"ragas", "hybrid"} /\ has_evaluator
    THEN [st EXCEPT !.pc[i] = "judging"]
    ELSE Scored(st, i, WithHybrid(WithRagas(st.work[i], mode, has_evaluator,
                                            JudgeNotCalled), mode))

\* the body of async with semaphore from its start: evaluate_single_case runs its
\* recall@K and chapter match blocks; a malformed row makes it raise
Body(st, i) ==
    IF test_cases[i].malformed THEN Except(st, i)
    ELSE Judge([st EXCEPT !.work[i] = WithChapterMatch(
                                           WithRecall(BaseResult(i), test_cases[i]),
                                           test_cases[i], mode)], i)

\* task i stands at async with semaphore.  A task that starts (tasks start in creation
\* order) takes a permit and enters the block, or waits when the Semaphore is locked;
\* a task woken with the permit of a task that returned enters the block
AsyncWithSemaphore(i) ==
    /\ phase = "Scoring"
    /\ pc[i] \in {"created", "running"}
    /\ pc[i] = "created" => \A j \in 1..(i - 1) : pc[j] # "created"
    /\ \E st \in {Shared} :
          \E next \in {IF pc[i] = "created" /\ SemaphoreLocked(semaphore, waiters)
                       THEN [st EXCEPT !.waiters = Append(@, i), !.pc[i] = "waiting"]
                       ELSE Body([st EXCEPT !.semaphore = IF pc[i] = "created"
                                                          THEN @ - 1 ELSE @], i)} :
             Becomes(next)
    /\ UNCHANGED <<matcher_vars, scorer_vars, phase, test_cases, mode, has_callback, has_evaluator,
                   ragas_init_error, max_concurrent, llm_max_concurrent, results,
                   summary, judge_outcome, sink_raised>>

\* the adapter call of task i ends with outcome o; evaluate_single_case finishes
JudgeReturns(i, o) ==
    /\ phase = "Scoring"
    /\ pc[i] = "judging"
    /\ judge_outcome' = [judge_outcome EXCEPT ![i] = o]
    /\ \E st \in {Shared}, r \in {WithHybrid(WithRagas(work[i], mode, TRUE, o), mode)} :
          \E next \in {Scored(st, i, r)} : Becomes(next)
    /\ UNCHANGED <<matcher_vars, scorer_vars, phase, test_cases, mode, has_callback, has_evaluator,
                   ragas_init_error, max_concurrent, llm_max_concurrent, results,
                   summary, sink_raised>>

\* task i, the first that waits for completed_lock, gets it
TakeLock(i) ==
    /\ phase = "Scoring"
    /\ pc[i] \in {"counting", "failing"}
    /\ lock_holder = 0
    /\ lock_waiters # <<>>
    /\ Head(lock_waiters) = i
    /\ \E st \in {[Shared EXCEPT !.lock_waiters = Tail(@)]} :
          \E next \in {IF pc[i] = "counting" THEN Locked(st, i) ELSE ExceptLocked(st, i)} :
             Becomes(next)
    /\ UNCHANGED <<matcher_vars, scorer_vars, phase, test_cases, mode, has_callback, has_evaluator,
                   ragas_init_error, max_concurrent, llm_max_concurrent, results,
                   summary, judge_outcome, sink_raised>>

\* the progress callback of task i returns or raises; completed_lock is released and
\* the task returns its result
SinkReturns(i, raised) ==
    /\ phase = "Scoring"
    /\ pc[i] = "in_sink"
    /\ sink_raised' = [sink_raised EXCEPT ![i] = raised]
    /\ \E st \in {[Shared EXCEPT !.lock_holder = 0]} :
          \E next \in {IF CallbackErrorPropagates(raised)
                       THEN Except(st, i)
                       ELSE Return(st, i, work[i], FALSE)} :
             Becomes(next)
    /\ UNCHANGED <<matcher_vars, scorer_vars, phase, test_cases, mode, has_callback, has_evaluator,
                   ragas_init_error, max_concurrent, llm_max_concurrent, results,
                   summary, judge_outcome>>

\* asyncio.gather returned (results in task order); they are sorted by idx
Gather ==
    /\ phase = "Scoring"
    /\ \A i \in Items : pc[i] = "done"
    /\ phase' = "Aggregating"
    /\ results' = [k \in Items |-> SortByIdx([i \in Items |-> task_results[i]])[k].result]
    /\ UNCHANGED <<matcher_vars, scorer_vars, test_cases, mode, has_callback, has_evaluator,
                   ragas_init_error, max_concurrent, llm_max_concurrent, summary,
                   judge_outcome, sink_raised, task_vars>>

\* the summary is built and the run returns
Aggregate ==
    /\ phase = "Aggregating"
    /\ phase' = "Done"
    /\ summary' = Summarize(results, mode, has_evaluator, ragas_init_error,
                            with_context, without_context)
    /\ UNCHANGED <<matcher_vars, scorer_vars, test_cases, mode, has_callback, has_evaluator,
                   ragas_init_error, max_concurrent, llm_max_concurrent, results,
                   judge_outcome, sink_raised, task_vars>>

Next ==
    \/ StartRun
    \/ LoadTestCases
    \/ \E ok \in BOOLEAN : InitRagas(ok)
    \/ \E eval_max \in -1..MaxConcurrent, llm_max \in 1..MaxConcurrent :
          StartScoring(eval_max, llm_max)
    \/ \E i \in Items : AsyncWithSemaphore(i)
    \/ \E i \in Items, o \in JudgeOutcomes : JudgeReturns(i, o)
    \/ \E i \in Items : TakeLock(i)
    \/ \E i \in Items, raised \in BOOLEAN : SinkReturns(i, raised)
    \/ Gather
    \/ Aggregate

Spec == Init /\ [][Next]_vars

\* the event loop keeps running what is ready, and every adapter and callback call
\* eventually returns or raises
FairSpec == Spec /\ WF_vars(Next)

\* run_evaluation is about to be called on a table of MaxQueued rows of one kind, to
\* be scored by the judge alone
QueueInit ==
    /\ pair_a = <<>> /\ pair_b = <<>> /\ pair_out = MatchIdle
    /\ scored = ScoreIdle /\ recalled = RecallIdle /\ generalized = GeneralizationIdle
    /\ extracted = ExtractIdle
    /\ mode = "ragas"
    /\ has_callback \in BOOLEAN
    /\ llm = LlmIdle
    /\ \E kind \in CaseKinds : RunIdle([i \in 1..MaxQueued |-> kind])

QueueSpec == QueueInit /\ [][Next]_vars

\* ------------------------------------------------- the matcher on a pair of labels
\* labels of at most MaxPairLen characters: dotted numerals, native ordinal chapters,
\* mixtures
PairLabels ==
    UNION {[1..n -> {"0", "1", ".", "DI", "c1", "ZHANG"}] : n \in 0..MaxPairLen}

MatchInit ==
    /\ pair_a \in PairLabels
    /\ pair_b \in PairLabels
    /\ pair_out = MatchIdle
    /\ scored = ScoreIdle /\ recalled = RecallIdle /\ generalized = GeneralizationIdle
    /\ extracted = ExtractIdle
    /\ mode = "chapter_match"
    /\ has_callback = FALSE
    /\ llm = LlmIdle
    /\ RunIdle(<<>>)

\* is_parent_chapter and is_valid_match (both directions) are applied to the pair
MatchPair ==
    /\ ~pair_out.done
    /\ pair_out' = [done |-> TRUE,
                    parent_ab |-> is_parent_chapter(pair_a, pair_b),
                    valid_ab |-> is_valid_match(pair_a, pair_b),
                    valid_ba |-> is_valid_match(pair_b, pair_a)]
    /\ UNCHANGED <<pair_a, pair_b, scorer_vars, run_vars>>

MatchSpec == MatchInit /\ [][MatchPair]_vars

\* ------------------------------------------------- the scorers on a single row
\* the scores a judge metric takes, in hundredths
JudgeScores == {0, 40, 70, 100}

\* every mapping the adapter can return: each metric is absent, has a null score or
\* has a score; or the call raises
AdapterOutcomes ==
    [raises : {FALSE}, fc : {Missing, Null} \cup JudgeScores, fa : {Missing, Null} \cup JudgeScores,
     cr : {Missing, Null} \cup JudgeScores, ar : {Missing, Null} \cup JudgeScores]
    \cup {[raises |-> TRUE, fc |-> Missing, fa |-> Missing, cr |-> Missing, ar |-> Missing]}

ScoreInit ==
    /\ pair_a = <<>> /\ pair_b = <<>> /\ pair_out = MatchIdle
    /\ recalled = RecallIdle /\ generalized = GeneralizationIdle /\ extracted = ExtractIdle
    /\ scored \in [done : {FALSE}, test_case : {c \in CaseKinds : ~c.malformed},
                    mode : {"chapter_match", "ragas", "hybrid"}, has_evaluator : BOOLEAN,
                    outcome : AdapterOutcomes, result : {BaseResult(1)}]
    /\ mode = "chapter_match"
    /\ has_callback = FALSE
    /\ llm = LlmIdle
    /\ RunIdle(<<>>)

\* evaluate_single_case is applied to the row
ScoreItem ==
    /\ ~scored.done
    /\ scored' = [scored EXCEPT
                     !.done = TRUE,
                     !.result = evaluate_single_case(1, scored.test_case, scored.mode,
                                                     scored.has_evaluator, scored.outcome)]
    /\ UNCHANGED <<matcher_vars, recalled, generalized, extracted, llm, run_vars>>

ScoreSpec == ScoreInit /\ [][ScoreItem]_vars

\* the recall@K block of evaluate_single_case on rows that differ in their reference
\* and their retrieved_chunks_json: text that is not JSON, JSON that is no list, and
\* lists of at most MaxChunks chunks in which at most one chunk differs from the others
RecallInit ==
    /\ pair_a = <<>> /\ pair_b = <<>> /\ pair_out = MatchIdle
    /\ scored = ScoreIdle /\ generalized = GeneralizationIdle /\ extracted = ExtractIdle
    /\ \E list \in {[i \in 1..n |-> IF i = p THEN c ELSE f] :
                        n \in 0..MaxChunks, p \in 0..MaxChunks,
                        c \in ChunkKinds, f \in ChunkKinds} :
          recalled \in [done : {FALSE},
                        test_case : [reference : {<<"1", ".", "2">>, <<"2">>, <<".">>, <<>>},
                                     retrieved_chunks_json :
                                         {[kind |-> "empty", chunks |-> <<>>],
                                          [kind |-> "invalid", chunks |-> <<>>],
                                          [kind |-> "not_list", chunks |-> <<>>],
                                          [kind |-> "list", chunks |-> list]}],
                        recall : {<<>>}]
    /\ mode = "chapter_match"
    /\ has_callback = FALSE
    /\ llm = LlmIdle
    /\ RunIdle(<<>>)

\* recall_at_3, recall_at_5 and recall_at_10 of the row are computed
RecallItem ==
    /\ ~recalled.done
    /\ recalled' = [recalled EXCEPT !.done = TRUE, !.recall = RecallAt(recalled.test_case)]
    /\ UNCHANGED <<matcher_vars, scored, generalized, extracted, llm, run_vars>>

RecallSpec == RecallInit /\ [][RecallItem]_vars

\* calculate_generalization_score and the generalization block of the summary on the
\* scores of at most six question types: the lists of S1 .. S3 hold at most MaxScores
\* scores, the lists of S4 .. S6 hold one score 0
GeneralizationInit ==
    /\ pair_a = <<>> /\ pair_b = <<>> /\ pair_out = MatchIdle
    /\ scored = ScoreIdle /\ recalled = RecallIdle /\ extracted = ExtractIdle
    /\ \E types \in SUBSET {"S1", "S2", "S3"} : \E zeros \in SUBSET {"S4", "S5", "S6"} :
          generalized \in [done : {FALSE},
                           results_by_type :
                               {by_type @@ [t \in zeros |-> <<0>>] :
                                   by_type \in [types -> UNION {[1..n -> {0, 50, 100}] :
                                                                   n \in 0..MaxScores}]},
                           score : {NoGeneralization}, summary : {NoGeneralization}]
    /\ mode = "chapter_match"
    /\ has_callback = FALSE
    /\ llm = LlmIdle
    /\ RunIdle(<<>>)

\* the score of the grouping is computed, directly and as the summary does
Generalize ==
    /\ ~generalized.done
    /\ generalized' =
           [generalized EXCEPT
               !.done = TRUE,
               !.score = calculate_generalization_score(generalized.results_by_type),
               !.summary = SummaryGeneralization(generalized.results_by_type)]
    /\ UNCHANGED <<matcher_vars, scored, recalled, extracted, llm, run_vars>>

GeneralizationSpec == GeneralizationInit /\ [][Generalize]_vars

\* the text made of the segments in order
RECURSIVE Concat(_)
Concat(segments) ==
    IF segments = <<>> THEN <<>> ELSE Head(segments) \o Concat(Tail(segments))

\* extract_chapter_info on every text of at most MaxSegments segments: chapter and
\* section headings, numerals, a Chinese numeral, separators and title text
ExtractInit ==
    /\ pair_a = <<>> /\ pair_b = <<>> /\ pair_out = MatchIdle
    /\ scored = ScoreIdle /\ recalled = RecallIdle /\ generalized = GeneralizationIdle
    /\ \E n \in 0..MaxSegments :
          \E segments \in [1..n -> {<<"DI", "c1", "ZHANG">>, <<"DI", "c2", "JIE">>, <<"1">>,
                                    <<"2">>, <<".">>, <<"c1">>, <<"DUN">>, <<" ">>, <<"g">>}] :
             extracted = [ExtractIdle EXCEPT !.text = Concat(segments)]
    /\ mode = "chapter_match"
    /\ has_callback = FALSE
    /\ llm = LlmIdle
    /\ RunIdle(<<>>)

\* the chapter label is extracted from the text and the label is normalised again
ExtractText ==
    /\ ~extracted.done
    /\ \E chapter_info \in {extract_chapter_info(extracted.text)} :
          extracted' =
              [extracted EXCEPT
                  !.done = TRUE,
                  !.chapter_info = chapter_info,
                  !.normalized = IF chapter_info = NoneText THEN NoneText
                                 ELSE normalize_chapter(chapter_info)]
    /\ UNCHANGED <<matcher_vars, scored, recalled, generalized, llm, run_vars>>

ExtractSpec == ExtractInit /\ [][ExtractText]_vars

\* ------------------------------------------------------------- the LLM client
\* MaxCallers coroutines are about to call call_llm on one event loop.  llm.recent:
\* less than REQUEST_INTERVAL (above 0) has passed since _last_request_time, which is
\* 0.0 after import; llm.lock_holder: the coroutine that holds _request_time_lock;
\* llm.semaphore: the value of _request_semaphore
CallInit ==
    /\ pair_a = <<>> /\ pair_b = <<>> /\ pair_out = MatchIdle
    /\ scored = ScoreIdle /\ recalled = RecallIdle /\ generalized = GeneralizationIdle
    /\ extracted = ExtractIdle
    /\ \E api_key \in BOOLEAN, permits \in 1..MaxPermits :
          llm = [api_key |-> api_key, permits |-> permits, semaphore |-> permits,
                 lock_holder |-> 0, recent |-> FALSE,
                 pc |-> [c \in 1..MaxCallers |-> "idle"]]
    /\ mode = "chapter_match"
    /\ has_callback = FALSE
    /\ RunIdle(<<>>)

\* coroutine c runs call_llm up to its first suspension.  _request_time_lock is a
\* threading.Lock: when a sleeping coroutine holds it, acquire() blocks the thread of
\* the event loop (pc "blocked"), and no coroutine runs while that thread is blocked
Call(c) ==
    /\ llm.pc[c] = "idle"
    /\ \A d \in 1..MaxCallers : llm.pc[d] # "blocked"
    /\ llm' = IF ~llm.api_key THEN [llm EXCEPT !.pc[c] = "raised"]
              ELSE IF llm.lock_holder # 0 THEN [llm EXCEPT !.pc[c] = "blocked"]
              ELSE IF llm.recent
              THEN [llm EXCEPT !.pc[c] = "sleeping", !.lock_holder = c]
              ELSE [llm EXCEPT !.pc[c] = "acquiring", !.recent = TRUE]
    /\ UNCHANGED <<matcher_vars, scored, recalled, generalized, extracted, run_vars>>

\* asyncio.sleep(wait_time) of coroutine c ends: _last_request_time is set, the lock
\* is released and _request_semaphore.acquire is handed to a worker thread
SleepEnds(c) ==
    /\ llm.pc[c] = "sleeping"
    /\ \A d \in 1..MaxCallers : llm.pc[d] # "blocked"
    /\ llm' = [llm EXCEPT !.pc[c] = "acquiring", !.lock_holder = 0, !.recent = TRUE]
    /\ UNCHANGED <<matcher_vars, scored, recalled, generalized, extracted, run_vars>>

\* REQUEST_INTERVAL has passed since _last_request_time
IntervalElapses ==
    /\ llm.recent
    /\ llm' = [llm EXCEPT !.recent = FALSE]
    /\ UNCHANGED <<matcher_vars, scored, recalled, generalized, extracted, run_vars>>

\* the worker thread of coroutine c gets a permit of _request_semaphore
AcquirePermit(c) ==
    /\ llm.pc[c] = "acquiring"
    /\ llm.semaphore > 0
    /\ llm' = [llm EXCEPT !.pc[c] = "posting", !.semaphore = @ - 1]
    /\ UNCHANGED <<matcher_vars, scored, recalled, generalized, extracted, run_vars>>

\* coroutine c resumes with its permit, posts the request and gets the response (ok)
\* or an exception; the finally block releases the permit
Respond(c, ok) ==
    /\ llm.pc[c] = "posting"
    /\ \A d \in 1..MaxCallers : llm.pc[d] # "blocked"
    /\ llm' = [llm EXCEPT !.pc[c] = IF ok THEN "returned" ELSE "raised",
                          !.semaphore = @ + 1]
    /\ UNCHANGED <<matcher_vars, scored, recalled, generalized, extracted, run_vars>>

CallNext ==
    \/ \E c \in 1..MaxCallers : Call(c)
    \/ \E c \in 1..MaxCallers : SleepEnds(c)
    \/ IntervalElapses
    \/ \E c \in 1..MaxCallers : AcquirePermit(c)
    \/ \E c \in 1..MaxCallers, ok \in BOOLEAN : Respond(c, ok)

\* the event loop runs every coroutine that is ready, sleeps end, worker threads run
\* and every request returns or raises
CallSpec == CallInit /\ [][CallNext]_vars /\ WF_vars(CallNext)

\* ------------------------------------------------------------------ properties
\* items whose task has returned
Settled == {i \in Items : pc[i] = "done"}

\* items inside the async with semaphore block
InFlight == {i \in Items : pc[i] \in {"running", "judging", "counting", "in_sink", "failing"}}

\* what evaluate_single_case yields for item i from its own row and adapter outcome
OwnResult(i) == evaluate_single_case(i, test_cases[i], mode, has_evaluator, judge_outcome[i])

\* C1: every item is counted exactly once when it settles: the completed counter is
\* never below the number of returned items, never above the number of items whose
\* scoring has ended, and equals the number of test cases once scoring is over.
C1_CountedExactlyOnce ==
    /\ phase \in {"Scoring", "Aggregating", "Done"} =>
          /\ Cardinality(Settled) <= completed_count
          /\ completed_count <=
                Cardinality({i \in Items : pc[i] \in {"counting", "in_sink", "failing", "done"}})
    /\ phase \in {"Aggregating", "Done"} => completed_count = total

\* C2: matching is directional: whenever is_parent_chapter(a, b) holds,
\* is_valid_match(a, b) holds and is_valid_match(b, a) does not.
C2_Directional ==
    (pair_out.done /\ pair_out.parent_ab) => (pair_out.valid_ab /\ ~pair_out.valid_ba)

\* C3: an item whose scoring raised is recorded with an error and without any score,
\* and every item's record depends on its own row and adapter outcome only: it is an
\* error record exactly when its own task failed, and its own scores otherwise.
C3_FailureIsolated ==
    \A i \in Items : pc[i] = "done" =>
        LET r == task_results[i].result
        IN  /\ r.question = i
            /\ (test_cases[i].malformed \/ judge_outcome[i].raises) =>
                  /\ r.error
                  /\ \A f \in {"chapter_match_accuracy", "fc", "fa", "cr", "ar", "core",
                                "overall", "quality", "hybrid_score", "hybrid_matched"} :
                        ~IsScore(r[f])
            /\ r.error <=> (test_cases[i].malformed \/ LogLineRaises(OwnResult(i), mode))
            /\ ~r.error => r = OwnResult(i)

\* C3 witness: the adapter call of one item raised and it is recorded as an error,
\* while a sibling was scored and returned its own scores.
C3_Witness ==
    \E i, j \in Items :
        /\ pc[i] = "done" /\ pc[j] = "done"
        /\ judge_outcome[i].raises /\ task_results[i].result.error
        /\ ~task_results[j].result.error /\ IsScore(task_results[j].result.overall)

\* every adapter call of the run raised
EveryJudgeCallRaised ==
    /\ mode \in {"ragas", "hybrid"} /\ has_evaluator
    /\ \A i \in Items : judge_outcome[i].raises

\* C4: a run in which every adapter call raised ends with a summary whose
\* total_questions is the number of test cases and which holds no judge-metric mean.
C4_AllJudgeCallsRaise ==
    (phase = "Done" /\ EveryJudgeCallRaised) =>
        /\ summary.built
        /\ summary.total_questions = total
        /\ \A f \in {"fc", "fa", "cr", "ar", "core", "overall"} : summary[f].state = "absent"

\* C4 witness: a finished run of two items whose adapter calls both raised.
C4_Witness == phase = "Done" /\ EveryJudgeCallRaised /\ total = 2

\* C5: the results handed to aggregation are in input order: the k-th result is the
\* result of the k-th test case, whatever the completion order was.
C5_InputOrder ==
    phase \in {"Aggregating", "Done"} =>
        /\ Len(results) = total
        /\ \A k \in 1..Len(results) : results[k].question = k
        /\ \A k \in 1..Len(results) : results[k] = task_results[k].result

\* C5 witness: the second item returned before the first one.
C5_Witness == phase = "Aggregating" /\ completion_order = <<2, 1>>

\* C6: during Scoring at most min(EVAL_MAX_CONCURRENT, LLM_MAX_CONCURRENT) items are
\* inside the scoring section (so at most that many adapter calls are in flight), the
\* permits taken are exactly those of the items inside, and all are back afterwards.
C6_BoundedConcurrency ==
    /\ phase = "Scoring" =>
          /\ Cardinality(InFlight) <= effective_max_concurrent
          /\ Cardinality({i \in Items : pc[i] = "judging"}) <= effective_max_concurrent
          /\ semaphore >= 0
          /\ semaphore + Cardinality(InFlight) = effective_max_concurrent
    /\ phase \in {"Aggregating", "Done"} => semaphore = effective_max_concurrent

\* C6 witness: the gate is full and an item waits for a permit, with an adapter
\* call in flight.
C6_Witness ==
    /\ phase = "Scoring"
    /\ waiters # <<>>
    /\ Cardinality(InFlight) = effective_max_concurrent
    /\ \E i \in Items : pc[i] = "judging"

\* C7: with a progress sink, a finished run over N items has made N sink invocations,
\* the k-th reporting completed = k, the last one completed = N.
C7_SinkOncePerItem ==
    (phase = "Done" /\ has_callback) =>
        /\ Len(sink_calls) = total
        /\ \A k \in 1..Len(sink_calls) :
              sink_calls[k].completed = k /\ sink_calls[k].total = total

\* C8: when the progress sink of an item returns or raises, the item returns its own
\* successful result and the completed counter does not change; an item whose sink
\* raised is never an error record.
C8_SinkFailureSwallowed ==
    [][\A i \in Items :
          (pc[i] = "in_sink" /\ pc'[i] # "in_sink") =>
              /\ pc'[i] = "done"
              /\ task_results'[i].result = work[i]
              /\ ~task_results'[i].result.error
              /\ completed_count' = completed_count]_vars

\* C8 witness: a finished run in which the sink raised for an item that kept its scores.
C8_Witness ==
    /\ phase = "Done"
    /\ \E i \in Items :
          /\ sink_raised[i]
          /\ ~task_results[i].result.error
          /\ task_results[i].result = OwnResult(i)
          /\ IsScore(results[i].chapter_match_accuracy)

C10_RunCompletes ==
    (phase = "Scoring" /\ effective_max_concurrent > 0) ~>
        (/\ phase = "Done"
         /\ summary.built
         /\ Settled = Items
         /\ semaphore = effective_max_concurrent
         /\ waiters = <<>>)

\* C10 witness: a run finished although an item failed while another waited for its
\* permit.
C10_Witness ==
    /\ phase = "Done"
    /\ effective_max_concurrent = 1
    /\ total = 2
    /\ task_results[1].result.error
    /\ summary.built

\* C11: with zero test cases the run fails at load time and goes no further: the
\* evaluator is never built (nor its construction attempted), no permit is set up, the
\* progress sink is never invoked, no result and no summary is produced; a failed run
\* has dispatched no item and made no adapter call.
C11_EmptyInputFailsAtLoad ==
    /\ total = 0 =>
          /\ phase \in {"Idle", "Loading", "Failed"}
          /\ ~has_evaluator /\ ~ragas_init_error
          /\ max_concurrent = 0 /\ llm_max_concurrent = 0 /\ semaphore = 0
          /\ completed_count = 0
          /\ sink_calls = <<>>
          /\ results = <<>>
          /\ ~summary.built
    /\ phase = "Failed" => \A i \in Items : pc[i] = "idle" /\ judge_outcome[i] = JudgeNotCalled

\* C11 witness: a hybrid run with a progress sink failed on an empty table.
C11_Witness == phase = "Failed" /\ total = 0 /\ mode = "hybrid" /\ has_callback

\* C12: a judge metric that the adapter omits or returns with a null score is recorded
\* as null in the item's result and never coerced to 0; a metric the adapter scored is
\* recorded with that score; the core and overall judge scores of an item are 0 only
\* when a metric scored 0; and every per-metric mean of the summary is the mean over
\* exactly the items for which the adapter returned a score of that metric.
C12_NullScoresExcludedFromMeans ==
    (phase = "Done" /\ mode \in {"ragas", "hybrid"} /\ has_evaluator) =>
        /\ \A i \in Items, m \in {"fc", "fa", "cr", "ar"} :
              IF IsScore(judge_outcome[i][m])
              THEN results[i][m] = judge_outcome[i][m]
              ELSE ~IsScore(results[i][m])
        /\ \A i \in Items, m \in {"core", "overall"} :
              results[i][m] = 0 => \E n \in {"fc", "fa", "cr", "ar"} : judge_outcome[i][n] = 0
        /\ \A m \in {"fc", "fa", "cr", "ar"} : summary[m] = MeanOf(judge_outcome, m)

\* C13: the judge score that enters the hybrid blend is the mean of whichever of
\* factual correctness and faithfulness the adapter scored, and is missing (0 in the
\* blend) when it scored neither, whatever the auxiliary metrics are.
C13_BlendUsesCoreMetricsOnly ==
    (/\ scored.done /\ scored.mode = "hybrid" /\ scored.has_evaluator
     /\ ~scored.outcome.raises
     /\ scored.outcome.fc # Null /\ scored.outcome.fa # Null) =>
        LET o == scored.outcome
            judge_part == scored.result.hybrid_score
                          - 4 * scored.result.chapter_match_accuracy
        IN  /\ (IsScore(o.fc) /\ IsScore(o.fa)) => judge_part = 3 * (o.fc + o.fa)
            /\ (IsScore(o.fc) /\ ~IsScore(o.fa)) => judge_part = 6 * o.fc
            /\ (~IsScore(o.fc) /\ IsScore(o.fa)) => judge_part = 6 * o.fa
            /\ (~IsScore(o.fc) /\ ~IsScore(o.fa)) => judge_part = 0

\* C14: in hybrid mode the hybrid score of a scored item is 0.4 x the structural score
\* + 0.6 x the judge-core score of the item, a missing judge-core counting as 0.
C14_HybridBlend ==
    (scored.done /\ scored.mode = "hybrid") =>
        scored.result.hybrid_score =
            4 * scored.result.chapter_match_accuracy
            + 6 * (IF IsScore(scored.result.core) THEN scored.result.core ELSE 0)

C16_RecallMonotone ==
    recalled.done =>
        \E location \in {extract_chapter_info(recalled.test_case.reference)} :
            LET json == recalled.test_case.retrieved_chunks_json
                list == IF json.kind = "list" THEN json.chunks ELSE <<>>
                hits == {i \in 1..Len(list) :
                            \E chapter \in {extract_chapter_from_chunk(list[i])} :
                               /\ location \notin {NoneText, <<>>}
                               /\ chapter # NoneText
                               /\ is_valid_match(chapter, location)}
            IN  /\ recalled.recall[3] <= recalled.recall[5]
                /\ recalled.recall[5] <= recalled.recall[10]
                /\ \A K \in {3, 5, 10} :
                      recalled.recall[K] = IF \E i \in hits : i <= K THEN 100 ELSE 0

\* C16 witness: the first matching entry of a ranked list stands between the fifth and
\* the tenth place, so that recall@5 is 0.0 and recall@10 is 1.0.
C16_Witness ==
    /\ recalled.done
    /\ Len(recalled.test_case.retrieved_chunks_json.chunks) > 5
    /\ recalled.recall[3] = 0
    /\ recalled.recall[5] = 0
    /\ recalled.recall[10] = 100

\* C17: when fewer than two question types have scores, the generalization score is
\* unavailable and never a number: the summary holds no generalization score, and
\* calculate_generalization_score yields none either.
C17_UnavailableBelowTwoTypes ==
    (/\ generalized.done
     /\ Cardinality({t \in DOMAIN generalized.results_by_type :
                        generalized.results_by_type[t] # <<>>}) < 2) =>
        /\ generalized.summary.state = "absent"
        /\ generalized.score.state = "absent"

\* C18 as stated: whenever two question types have scores and their means are
\* identical, the generalization score is exactly 1.0, whatever the common mean is.
C18_IdenticalMeansGiveOne ==
    generalized.done =>
        LET by_type == generalized.results_by_type
            typed == {t \in DOMAIN by_type : by_type[t] # <<>>}
        IN  (/\ Cardinality(typed) = 2
             /\ \A t, u \in typed :
                   Sum(by_type[t]) * Len(by_type[u]) = Sum(by_type[u]) * Len(by_type[t])) =>
                generalized.score.state = "exp" /\ generalized.score.cv_sq_num = 0

\* C18 amended: whenever two question types have scores and their means are identical,
\* the generalization score is exactly 1.0 when the common mean is above 0, and 0.0
\* when the common mean is 0.
C18_IdenticalPositiveMeansGiveOne ==
    generalized.done =>
        LET by_type == generalized.results_by_type
            typed == {t \in DOMAIN by_type : by_type[t] # <<>>}
        IN  (/\ Cardinality(typed) = 2
             /\ \A t, u \in typed :
                   Sum(by_type[t]) * Len(by_type[u]) = Sum(by_type[u]) * Len(by_type[t])) =>
                IF \A t \in typed : Sum(by_type[t]) = 0
                THEN generalized.score.state = "zero"
                ELSE generalized.score.state = "exp" /\ generalized.score.cv_sq_num = 0

\* C18 witness: two question types with different score lists and the same mean above 0
\* were scored 1.0.
C18_Witness ==
    /\ generalized.done
    /\ DOMAIN generalized.results_by_type = {"S1", "S3"}
    /\ generalized.results_by_type["S1"] = <<50>>
    /\ generalized.results_by_type["S3"] = <<0, 100>>
    /\ generalized.score.state = "exp" /\ generalized.score.cv_sq_num = 0

\* C19: is_valid_match is reflexive modulo normalization: a label whose normalized
\* form is not empty is a valid match of itself.
C19_ValidMatchReflexive ==
    (pair_out.done /\ pair_a = pair_b /\ normalize_chapter(pair_a) # <<>>) =>
        pair_out.valid_ab

\* C19 witness: a label that normalizes to a text without chapter levels was matched
\* against itself.
C19_Witness ==
    /\ pair_out.done
    /\ pair_a = pair_b
    /\ normalize_chapter(pair_a) # <<>>
    /\ get_chapter_levels(pair_a) = <<>>
    /\ pair_out.valid_ab

\* C20: a label is never its own parent: is_parent_chapter is false for a label and
\* itself and for every two labels with the same normalized form.
C20_NeverOwnParent ==
    (pair_out.done /\ normalize_chapter(pair_a) = normalize_chapter(pair_b)) =>
        ~pair_out.parent_ab

\* C20 witness: two different labels with the same non-empty normalized form, which
\* has a single chapter level, were compared.
C20_Witness ==
    /\ pair_out.done
    /\ pair_a # pair_b
    /\ normalize_chapter(pair_a) = normalize_chapter(pair_b)
    /\ Len(get_chapter_levels(pair_a)) = 1
    /\ ~pair_out.parent_ab

\* C21: the label extract_chapter_info returns is already canonical: normalising it
\* again returns it unchanged
C21_ExtractionIsCanonical ==
    (extracted.done /\ extracted.chapter_info # NoneText) =>
        extracted.normalized = extracted.chapter_info

\* C22: for two labels in dotted-numeral form is_valid_match(retrieved, reference) is
\* true exactly when the level path of retrieved equals the level path of reference or
\* is a strictly shorter prefix of it
C22_DottedMatchIsPrefix ==
    (pair_out.done /\ IsDotted(pair_a) /\ IsDotted(pair_b)) =>
        LET retrieved == IntParts(Split(pair_a, "."))
            reference == IntParts(Split(pair_b, "."))
        IN  pair_out.valid_ab <=>
                /\ Len(retrieved) <= Len(reference)
                /\ retrieved = Take(reference, Len(retrieved))

\* is_valid_match("1", "1.0") is true and is_valid_match("1.0", "1") is false
C22_Witness ==
    /\ pair_out.done
    /\ pair_a = <<"1">> /\ pair_b = <<"1", ".", "0">>
    /\ pair_out.valid_ab /\ ~pair_out.valid_ba

C24_SharedWritesUnderOneLock ==
    /\ [](/\ Cardinality({i \in Items : pc[i] = "in_sink"}) <= 1
          /\ \A i \in Items : pc[i] = "in_sink" <=> lock_holder = i)
    /\ [][(\/ completed_count' # completed_count
           \/ with_context' # with_context
           \/ without_context' # without_context) => lock_holder = 0]_vars

\* the first item is inside the progress callback with the lock, the second item has
\* its result and waits for the lock, and only the first item has been counted
C24_Witness ==
    /\ phase = "Scoring"
    /\ Len(test_cases) = 2
    /\ pc[1] = "in_sink" /\ lock_holder = 1
    /\ pc[2] = "counting" /\ lock_waiters = <<2>>
    /\ completed_count = 1

\* C25: items get their permits in input order: whenever an item has got its permit,
\* every item before it in the table has got its permit too, and the items that wait
\* for a permit wait in input order
C25_PermitsInInputOrder ==
    /\ \A i, j \in Items :
          (i < j /\ pc[j] \notin {"idle", "created", "waiting"}) =>
              pc[i] \notin {"idle", "created", "waiting"}
    /\ \A k \in 1..(Len(waiters) - 1) : waiters[k] < waiters[k + 1]

\* one permit, three items: the first item returned and handed its permit to the
\* second item while the third item still waits
C25_Witness ==
    /\ phase = "Scoring"
    /\ effective_max_concurrent = 1
    /\ total = 3
    /\ pc[1] = "done" /\ pc[2] = "running" /\ pc[3] = "waiting"
    /\ waiters = <<3>>

\* C26: the mode alone decides which scorers run.  In chapter_match mode the evaluator
\* is never built, the adapter is never called and no result holds a judge score or a
\* hybrid score; in ragas mode no result holds a chapter match or a hybrid score;
\* hybrid_score and hybrid_matched are in the result exactly in hybrid mode; the
\* result of evaluate_single_case holds recall@3, recall@5 and recall@10 in every mode
C26_ModeDecidesTheScorers ==
    /\ mode = "chapter_match" =>
          ~has_evaluator /\ \A i \in Items : judge_outcome[i] = JudgeNotCalled
    /\ \A i \in Items :
          LET r == work[i]
              returned == /\ pc[i] \in {"counting", "in_sink", "failing", "done"}
                          /\ ~test_cases[i].malformed
              judged == {r.fc, r.fa, r.cr, r.ar, r.core, r.overall, r.quality} # {Missing}
          IN  /\ mode = "chapter_match" => ~judged /\ ~r.ragas_error
              /\ mode = "ragas" => r.chapter_match_accuracy = Missing
              /\ mode # "hybrid" => r.hybrid_score = Missing /\ r.hybrid_matched = Missing
              /\ returned =>
                    /\ mode = "hybrid" => IsScore(r.hybrid_score) /\ r.hybrid_matched \in {0, 1}
                    /\ mode # "ragas" => IsScore(r.chapter_match_accuracy)
                    /\ mode # "chapter_match" => judged
                    /\ IsScore(r.recall_at_3) /\ IsScore(r.recall_at_5)
                    /\ IsScore(r.recall_at_10)

\* a run in ragas mode has ended: the result of the first item holds judge scores and
\* recall@3 and neither a chapter match nor a hybrid score
C26_Witness ==
    /\ phase = "Done"
    /\ mode = "ragas"
    /\ IsScore(work[1].fc) /\ IsScore(work[1].overall)
    /\ work[1].recall_at_3 = 100
    /\ work[1].chapter_match_accuracy = Missing
    /\ work[1].hybrid_score = Missing

\* C27: when the evaluator cannot be built in hybrid mode the run goes on with the
\* chapter match alone: every row that can be scored ends with its chapter match,
\* a hybrid_score of 0.4 x chapter match and hybrid_matched false, none of them ends
\* as an error record, and the summary reports the chapter match accuracy
C27_HybridWithoutEvaluator ==
    (phase = "Done" /\ mode = "hybrid" /\ ragas_init_error) =>
        /\ \A i \in Items :
              ~test_cases[i].malformed =>
                  /\ ~results[i].error
                  /\ results[i].chapter_match_accuracy = ChapterMatchOfRow[test_cases[i]]
                  /\ results[i].hybrid_score = 4 * ChapterMatchOfRow[test_cases[i]]
                  /\ results[i].hybrid_matched = 0
        /\ (\E i \in Items : ~test_cases[i].malformed) =>
              summary.chapter_match_accuracy # AbsentMean

\* C28: every call of the progress callback reports a completed count between 1 and
\* the number of rows and a total equal to the number of rows, and the completed
\* counts of successive calls are strictly increasing
C28_SinkReportsWithinBounds ==
    /\ \A k \in 1..Len(sink_calls) :
          /\ 1 <= sink_calls[k].completed /\ sink_calls[k].completed <= total
          /\ sink_calls[k].total = total
    /\ \A k \in 1..(Len(sink_calls) - 1) :
          sink_calls[k].completed < sink_calls[k + 1].completed

\* C29: in the summary retrieval_with_context_count + retrieval_without_context_count
\* is total_questions, which is the number of rows: every row is tallied once, in the
\* counter of its own retrieved_context, so the success rate is at most 1
C29_ContextCountsAddUp ==
    phase = "Done" =>
        /\ summary.total_questions = total
        /\ summary.retrieval_with_context_count + summary.retrieval_without_context_count
               = summary.total_questions
        /\ summary.retrieval_with_context_count
               = Cardinality({i \in Items : test_cases[i].retrieved_context})
        /\ summary.retrieval_with_context_count <= summary.total_questions

\* C30: every coroutine that calls call_llm gets past the request interval and past
\* the semaphore, however many call at the same time: a coroutine that waits out the
\* interval with the request-time lock never stops the event loop for good; and every
\* permit taken is held by one coroutine that is posting, which releases that permit
C30_CallersGetThrough ==
    /\ [](llm.semaphore + Cardinality({c \in 1..MaxCallers : llm.pc[c] = "posting"})
              = llm.permits)
    /\ \A c \in 1..MaxCallers :
          (llm.api_key /\ llm.pc[c] = "idle")
              ~> (llm.pc[c] \in {"posting", "returned", "raised"})

====
